---- MODULE Spec2Model ----
(***************************************************************************)
(* Model of the crawler in src/scrap_data.py (fetch_page,                  *)
(* parse_hotel_links, extract_opinions, scrape_hotel_opinions, main).      *)
(* Python strings are sequences of one-character strings, so that split,   *)
(* join, rfind, slicing and strip are computed as the code computes them.  *)
(***************************************************************************)
EXTENDS Integers, Sequences, FiniteSets, TLC

VARIABLES site, pc, session, opened, soup, hotel_urls, i, opinions,
          next_page, data, written, log, corpus

vars == <<site, pc, session, opened, soup, hotel_urls, i, opinions,
          next_page, data, written, log, corpus>>

\* ---------------------------------------------------------------- bounds
MaxAnchors == 2
MaxFetches == 4
MaxHrefLen == 6

\* ------------------------------------------------------- string literals
\* "https://www.wakacje.pl"
DomainRoot == <<"h","t","t","p","s",":","/","/","w","w","w",".","w","a","k","a","c","j","e",".","p","l">>
\* "https://www.wakacje.pl/opinie/hotele/"
OpinionsPrefix == DomainRoot \o <<"/","o","p","i","n","i","e","/","h","o","t","e","l","e","/">>
\* "https://www.wakacje.pl/hotele/"
CatalogUrl == DomainRoot \o <<"/","h","o","t","e","l","e","/">>
\* str(None)
NoneStr == <<"N","o","n","e">>

\* ------------------------------------------------------ string functions
\* str.find("/"): 1-based position of the first "/" in s, 0 when absent
FirstSlash(s) ==
  IF \E k \in 1..Len(s) : s[k] = "/"
  THEN CHOOSE k \in 1..Len(s) : s[k] = "/" /\ \A j \in 1..(k-1) : s[j] # "/"
  ELSE 0

RECURSIVE Split(_)
\* href.split("/")
Split(s) ==
  IF FirstSlash(s) = 0 THEN <<s>>
  ELSE <<SubSeq(s, 1, FirstSlash(s) - 1)>> \o Split(SubSeq(s, FirstSlash(s) + 1, Len(s)))

RECURSIVE Join(_)
\* "/".join(parts)
Join(parts) ==
  IF Len(parts) = 0 THEN <<>>
  ELSE IF Len(parts) = 1 THEN parts[1]
  ELSE parts[1] \o <<"/">> \o Join(Tail(parts))

\* variant: parts[2:]
FromThird(parts) == SubSeq(parts, 3, Len(parts))

\* parts[3:]
FromFourth(parts) == SubSeq(parts, 4, Len(parts))

\* variant: url.find("-"), the first "-" instead of the last
FindDash(url) ==
  IF \E k \in 1..Len(url) : url[k] = "-"
  THEN (CHOOSE k \in 1..Len(url) : url[k] = "-" /\ \A j \in 1..(k-1) : url[j] # "-") - 1
  ELSE -1

\* url.rfind("-"): 0-based index of the last "-", -1 when absent
RFindDash(url) ==
  IF \E k \in 1..Len(url) : url[k] = "-"
  THEN (CHOOSE k \in 1..Len(url) : url[k] = "-" /\ \A j \in (k+1)..Len(url) : url[j] # "-") - 1
  ELSE -1

\* url[: index_href + 1] + "h" + url[index_href + 1 :]
InsertH(url, index_href) ==
  SubSeq(url, 1, index_href + 1) \o <<"h">> \o SubSeq(url, index_href + 2, Len(url))

\* body of the loop of parse_hotel_links for one href string
RewriteHref(href) ==
  LET parts == Split(href)
      url == OpinionsPrefix \o Join(FromFourth(parts))
  IN InsertH(url, RFindDash(url))

IsSpace(c) == c = " "

RECURSIVE LStrip(_)
LStrip(s) == IF Len(s) > 0 /\ IsSpace(s[1]) THEN LStrip(Tail(s)) ELSE s

RECURSIVE RStrip(_)
RStrip(s) == IF Len(s) > 0 /\ IsSpace(s[Len(s)]) THEN RStrip(SubSeq(s, 1, Len(s) - 1)) ELSE s

\* opinion.get_text(strip=True) on a paragraph holding one text node
GetTextStrip(s) == RStrip(LStrip(s))

\* ------------------------------------------------------------ documents
\* an <a> element: its href attribute may be absent (link.get gives None)
Anchor(h) == [has_href |-> TRUE, href |-> h]
AnchorNoHref == [has_href |-> FALSE, href |-> <<>>]

\* li.pagination__item--next: absent, or present with or without an <a>
NoNext == [present |-> FALSE, has_a |-> FALSE, a |-> AnchorNoHref]
NextNoAnchor == [present |-> TRUE, has_a |-> FALSE, a |-> AnchorNoHref]
NextTo(h) == [present |-> TRUE, has_a |-> TRUE, a |-> Anchor(h)]
NextNoHref == [present |-> TRUE, has_a |-> TRUE, a |-> AnchorNoHref]

\* a parsed document: the four structural markers the crawler looks for
Doc(carousel, anchors, has_list, blocks, next) ==
  [carousel |-> carousel, anchors |-> anchors, has_list |-> has_list,
   blocks |-> blocks, next |-> next]

EmptyDoc == Doc(FALSE, <<>>, FALSE, <<>>, NoNext)

\* the value fetch_page returns: None, or a BeautifulSoup document
NoneSoup == [is_none |-> TRUE, doc |-> EmptyDoc]
SoupOf(d) == [is_none |-> FALSE, doc |-> d]

\* variant: no "if not frequently_rated" guard, None.find_all raises
ParseRaisesUnguarded(s) ==
  ~s.doc.carousel \/ \E k \in 1..Len(s.doc.anchors) : ~s.doc.anchors[k].has_href

\* parse_hotel_links: raises AttributeError when an <a> has no href
ParseRaises(s) ==
  s.doc.carousel /\ \E k \in 1..Len(s.doc.anchors) : ~s.doc.anchors[k].has_href

ParseHotelLinks(s) ==
  IF ~s.doc.carousel THEN <<>>
  ELSE [k \in 1..Len(s.doc.anchors) |-> RewriteHref(s.doc.anchors[k].href)]

\* variant: no "if not opinions_list" guard, the paragraphs are taken anyway
ExtractOpinionsUnguarded(s) ==
  [k \in 1..Len(s.doc.blocks) |-> GetTextStrip(s.doc.blocks[k])]

\* extract_opinions
ExtractOpinions(s) ==
  IF ~s.doc.has_list THEN <<>>
  ELSE [k \in 1..Len(s.doc.blocks) |-> GetTextStrip(s.doc.blocks[k])]

\* soup.find("li", class_="pagination__item--next")
FindNext(s) == s.doc.next

\* next_page.find("a") is None: .get raises AttributeError
NextRaises(np) == ~np.has_a

\* "https://www.wakacje.pl" + str(next_page.find("a").get("href"))
NextPageUrl(np) ==
  DomainRoot \o (IF np.a.has_href THEN np.a.href ELSE NoneStr)

\* variant: opinions = extract_opinions(soup), dropping the earlier pages
ExtendOverwrites(ops, s) == ExtractOpinions(s)

\* variant: the new page's opinions are put in front of the earlier ones
ExtendPrepends(ops, s) == ExtractOpinions(s) \o ops

\* opinions.extend(extract_opinions(soup))
Extend(ops, s) == ops \o ExtractOpinions(s)

\* variant: return [] after a failed later fetch
BreakReturnsEmpty(ops) == <<>>

\* else: break ... return opinions (the walk stops on a failed later fetch)
BreakReturn(ops) == ops

\* variant: hotels without opinions are left out of data
AppendResultNonEmpty(d, url, ops) ==
  IF Len(ops) = 0 THEN d ELSE Append(d, [hotel_url |-> url, opinions |-> ops])

\* data.append({"hotel_url": hotel_url, "opinions": opinions})
AppendResult(d, url, ops) == Append(d, [hotel_url |-> url, opinions |-> ops])

\* ------------------------------------------------------- the sites tried
\* carousel hrefs
HrefGrand == <<"/","p","l","/","o","f","f","e","r","/","1","2","3","-","g","r","a","n","d","-","h","o","t","e","l">>
HrefGood == <<"/","p","l","/","x","/","a","-","b">>
HrefShort == <<"/","a">>
HrefNoDash == <<"/","p","l","/","x","/","a","b">>

\* review-listing URLs the site serves
UrlGrand == OpinionsPrefix \o <<"1","2","3","-","g","r","a","n","d","-","h","h","o","t","e","l">>
UrlGood == OpinionsPrefix \o <<"a","-","h","b">>
HrefP2 == <<"/","2">>
HrefP3 == <<"/","3">>
UrlP2 == DomainRoot \o HrefP2
UrlP3 == DomainRoot \o HrefP3

CarouselAnchors ==
  {Anchor(HrefGrand), Anchor(HrefGood), Anchor(HrefShort), Anchor(HrefNoDash), AnchorNoHref}

SeqsUpTo(S, n) == UNION {[1..m -> S] : m \in 0..n}

CatalogDocs ==
  {Doc(FALSE, <<>>, FALSE, <<>>, NoNext)} \cup
  {Doc(TRUE, as, FALSE, <<>>, NoNext) : as \in SeqsUpTo(CarouselAnchors, MaxAnchors)}

GreatStay == <<"G","r","e","a","t"," ","s","t","a","y">>
WouldReturn == <<"W","o","u","l","d"," ","r","e","t","u","r","n">>
GrandDoc == Doc(FALSE, <<>>, TRUE, <<GreatStay, WouldReturn>>, NoNext)
GoodDoc(next) == Doc(FALSE, <<>>, TRUE, << <<" ","a">>, <<"b"," ">> >>, next)
P2Doc(has_list, next) == Doc(FALSE, <<>>, has_list, << <<"c">> >>, next)
P3Doc(next) == Doc(FALSE, <<>>, TRUE, << <<"D",".">>, <<" ">> >>, next)

ReviewSites ==
  { UrlGrand :> GrandDoc @@ UrlGood :> GoodDoc(n1) @@
    UrlP2 :> P2Doc(l2, n2) @@ UrlP3 :> P3Doc(n3) :
      <<n1, l2, n2, n3>> \in
        {NoNext, NextTo(HrefP2), NextNoAnchor, NextNoHref} \X BOOLEAN \X
        {NoNext, NextTo(HrefP3)} \X {NoNext, NextTo(HrefP2)} }

MainSites ==
  { (CatalogUrl :> c) @@ r : <<c, r>> \in CatalogDocs \X ReviewSites }

\* every href over a three-letter alphabet, alone in the carousel
HrefAlphabet == {"/", "-", "a"}
BoundedHrefs == SeqsUpTo(HrefAlphabet, MaxHrefLen)
PlainSite ==
  UrlGrand :> GrandDoc @@ UrlGood :> GoodDoc(NextTo(HrefP2)) @@
  UrlP2 :> P2Doc(TRUE, NextTo(HrefP3)) @@ UrlP3 :> P3Doc(NoNext)
RewriteSites ==
  { (CatalogUrl :> Doc(TRUE, <<Anchor(h)>>, FALSE, <<>>, NoNext)) @@ PlainSite :
      h \in BoundedHrefs }

\* ------------------------------------------------------------ fetch_page
\* session.get + raise_for_status: a RequestException gives None; a URL the
\* site does not serve (404, no connection adapter, unknown host) always does
FetchOutcomes(url) ==
  {NoneSoup} \cup (IF url \in DOMAIN site THEN {SoupOf(site[url])} ELSE {})

LogFetch(url, s, hotel) ==
  Append(log, [url |-> url, ok |-> ~s.is_none, hotel |-> hotel,
               open |-> session = "open"])

FetchesOf(hotel) == Cardinality({k \in 1..Len(log) : log[k].hotel = hotel})

NotWritten == [done |-> FALSE, content |-> <<>>]

\* variant: the session is never closed
SessionExitLeaks == "open"

\* leaving "with requests.Session() as session" (normally or by an
\* exception) runs Session.__exit__, which closes the session
SessionExit == "closed"

\* ------------------------------------------------- src/main.py: the corpus
\* string.punctuation, but for the grave accent, which a string of this
\* language cannot hold; none of the page texts used here contains one
Punctuation ==
  {"!", "\"", "#", "$", "%", "&", "'", "(", ")", "*", "+", ",", "-", ".", "/",
   ":", ";", "<", "=", ">", "?", "@", "[", "\\", "]", "^", "_", "{", "|",
   "}", "~"}

UpperLetters == <<"A","B","C","D","E","F","G","H","I","J","K","L","M","N","O","P","Q","R","S","T","U","V","W","X","Y","Z">>
LowerLetters == <<"a","b","c","d","e","f","g","h","i","j","k","l","m","n","o","p","q","r","s","t","u","v","w","x","y","z">>

\* str.lower() on one character
LowerChar(c) ==
  IF \E k \in 1..Len(UpperLetters) : UpperLetters[k] = c
  THEN LowerLetters[CHOOSE k \in 1..Len(UpperLetters) : UpperLetters[k] = c]
  ELSE c

\* "".join(char for char in opinion if char not in string.punctuation)
WithoutPunctuation(opinion) == SelectSeq(opinion, LAMBDA c : c \notin Punctuation)

\* opinion_without_punctuation.lower()
LowercaseOpinion(opinion) ==
  [k \in 1..Len(WithoutPunctuation(opinion)) |-> LowerChar(WithoutPunctuation(opinion)[k])]

RECURSIVE CreateCorpusSkipsEmpty(_)
\* variant: an opinion that is empty after cleaning is not appended
CreateCorpusSkipsEmpty(d) ==
  IF Len(d) = 0 THEN <<>>
  ELSE SelectSeq([k \in 1..Len(d[1].opinions) |-> LowercaseOpinion(d[1].opinions[k])],
                 LAMBDA o : Len(o) > 0)
       \o CreateCorpusSkipsEmpty(Tail(d))

RECURSIVE CreateCorpus(_)
\* create_corpus: for item in data: for opinion in item["opinions"]: append
CreateCorpus(d) ==
  IF Len(d) = 0 THEN <<>>
  ELSE [k \in 1..Len(d[1].opinions) |-> LowercaseOpinion(d[1].opinions[k])]
       \o CreateCorpus(Tail(d))

\* read_data_from_file("results/1_opinions.json"): the list json.dump wrote
ReadDataFromFile == written.content

NoCorpus == [made |-> FALSE, lines |-> <<>>]

\* ---------------------------------------------------------------- state
Init ==
  /\ site \in MainSites \cup RewriteSites
  /\ pc = "start"
  /\ session = "none"
  /\ opened = 0
  /\ soup = NoneSoup
  /\ hotel_urls = <<>>
  /\ i = 0
  /\ opinions = <<>>
  /\ next_page = NoNext
  /\ data = <<>>
  /\ written = NotWritten
  /\ log = <<>>
  /\ corpus = NoCorpus

\* with requests.Session() as session:
OpenSession ==
  /\ pc = "start"
  /\ session' = "open"
  /\ opened' = opened + 1
  /\ pc' = "fetch_catalog"
  /\ UNCHANGED <<site, corpus, soup, hotel_urls, i, opinions, next_page, data, written, log>>

\* variant: no "if soup:" guard, parse_hotel_links(None) raises
FetchCatalogUnguarded ==
  /\ pc = "fetch_catalog"
  /\ \E s \in FetchOutcomes(CatalogUrl) :
       /\ soup' = s
       /\ log' = LogFetch(CatalogUrl, s, 0)
       /\ IF s.is_none
          THEN pc' = "crashed" /\ session' = SessionExit
          ELSE pc' = "parse" /\ session' = session
  /\ UNCHANGED <<site, corpus, opened, hotel_urls, i, opinions, next_page, data, written>>

\* soup = fetch_page(session, url); if soup: ... (else the with block ends)
FetchCatalog ==
  /\ pc = "fetch_catalog"
  /\ \E s \in FetchOutcomes(CatalogUrl) :
       /\ soup' = s
       /\ log' = LogFetch(CatalogUrl, s, 0)
       /\ IF s.is_none
          THEN pc' = "write" /\ session' = SessionExit
          ELSE pc' = "parse" /\ session' = session
  /\ UNCHANGED <<site, corpus, opened, hotel_urls, i, opinions, next_page, data, written>>

\* hotel_urls = parse_hotel_links(soup); an AttributeError leaves the with
\* block (closing the session) and ends main before the snapshot is written
ParseLinks ==
  /\ pc = "parse"
  /\ IF ParseRaises(soup)
     THEN /\ pc' = "crashed"
          /\ session' = SessionExit
          /\ UNCHANGED <<hotel_urls, i>>
     ELSE /\ hotel_urls' = ParseHotelLinks(soup)
          /\ i' = 1
          /\ pc' = "loop"
          /\ session' = session
  /\ UNCHANGED <<site, corpus, opened, soup, opinions, next_page, data, written, log>>

\* variant: a failed first fetch of a hotel ends the for loop
WalkFirstAborts ==
  /\ pc = "loop"
  /\ i <= Len(hotel_urls)
  /\ \E s \in FetchOutcomes(hotel_urls[i]) :
       /\ log' = LogFetch(hotel_urls[i], s, i)
       /\ IF s.is_none
          THEN /\ data' = AppendResult(data, hotel_urls[i], <<>>)
               /\ i' = Len(hotel_urls) + 1
               /\ pc' = "loop"
               /\ UNCHANGED <<opinions, next_page>>
          ELSE /\ opinions' = ExtractOpinions(s)
               /\ next_page' = FindNext(s)
               /\ pc' = "while"
               /\ UNCHANGED <<data, i>>
  /\ UNCHANGED <<site, corpus, session, opened, soup, hotel_urls, written>>

\* for hotel_url in hotel_urls: scrape_hotel_opinions up to its first fetch
WalkFirst ==
  /\ pc = "loop"
  /\ i <= Len(hotel_urls)
  /\ \E s \in FetchOutcomes(hotel_urls[i]) :
       /\ log' = LogFetch(hotel_urls[i], s, i)
       /\ IF s.is_none
          THEN /\ data' = AppendResult(data, hotel_urls[i], <<>>)
               /\ i' = i + 1
               /\ pc' = "loop"
               /\ UNCHANGED <<opinions, next_page>>
          ELSE /\ opinions' = ExtractOpinions(s)
               /\ next_page' = FindNext(s)
               /\ pc' = "while"
               /\ UNCHANGED <<data, i>>
  /\ UNCHANGED <<site, corpus, session, opened, soup, hotel_urls, written>>

\* variant: next_page is not refreshed from the page just fetched
WalkNextStale ==
  /\ pc = "while"
  /\ next_page.present
  /\ FetchesOf(i) < MaxFetches
  /\ IF NextRaises(next_page)
     THEN /\ pc' = "crashed"
          /\ session' = SessionExit
          /\ UNCHANGED <<opinions, next_page, data, i, log>>
     ELSE \E s \in FetchOutcomes(NextPageUrl(next_page)) :
          /\ log' = LogFetch(NextPageUrl(next_page), s, i)
          /\ session' = session
          /\ IF s.is_none
             THEN /\ data' = AppendResult(data, hotel_urls[i], BreakReturn(opinions))
                  /\ i' = i + 1
                  /\ pc' = "loop"
                  /\ UNCHANGED <<opinions, next_page>>
             ELSE /\ opinions' = Extend(opinions, s)
                  /\ next_page' = next_page
                  /\ pc' = "while"
                  /\ UNCHANGED <<data, i>>
  /\ UNCHANGED <<site, corpus, opened, soup, hotel_urls, written>>

\* one iteration of: while next_page
WalkNext ==
  /\ pc = "while"
  /\ next_page.present
  /\ FetchesOf(i) < MaxFetches
  /\ IF NextRaises(next_page)
     THEN /\ pc' = "crashed"
          /\ session' = SessionExit
          /\ UNCHANGED <<opinions, next_page, data, i, log>>
     ELSE \E s \in FetchOutcomes(NextPageUrl(next_page)) :
          /\ log' = LogFetch(NextPageUrl(next_page), s, i)
          /\ session' = session
          /\ IF s.is_none
             THEN /\ data' = AppendResult(data, hotel_urls[i], BreakReturn(opinions))
                  /\ i' = i + 1
                  /\ pc' = "loop"
                  /\ UNCHANGED <<opinions, next_page>>
             ELSE /\ opinions' = Extend(opinions, s)
                  /\ next_page' = FindNext(s)
                  /\ pc' = "while"
                  /\ UNCHANGED <<data, i>>
  /\ UNCHANGED <<site, corpus, opened, soup, hotel_urls, written>>

\* next_page is None: return opinions; data.append(...)
WalkReturn ==
  /\ pc = "while"
  /\ ~next_page.present
  /\ data' = AppendResult(data, hotel_urls[i], opinions)
  /\ i' = i + 1
  /\ pc' = "loop"
  /\ UNCHANGED <<site, corpus, session, opened, soup, hotel_urls, opinions, next_page, written, log>>

\* the for loop is exhausted: the with block ends and closes the session
ExitLoop ==
  /\ pc = "loop"
  /\ i > Len(hotel_urls)
  /\ session' = SessionExit
  /\ pc' = "write"
  /\ UNCHANGED <<site, corpus, opened, soup, hotel_urls, i, opinions, next_page, data, written, log>>

\* json.dump(data, json_file, ...)
WriteSnapshot ==
  /\ pc = "write"
  /\ written' = [done |-> TRUE, content |-> data]
  /\ pc' = "done"
  /\ UNCHANGED <<site, corpus, session, opened, soup, hotel_urls, i, opinions, next_page, data, log>>

\* src/main.py, process_data: data = read_data_from_file(file_path);
\* corpus = create_corpus(data), run on the file the crawler wrote
ProcessData ==
  /\ pc = "done"
  /\ written.done
  /\ ~corpus.made
  /\ corpus' = [made |-> TRUE, lines |-> CreateCorpus(ReadDataFromFile)]
  /\ UNCHANGED <<site, pc, session, opened, soup, hotel_urls, i, opinions,
                 next_page, data, written, log>>

Next ==
  \/ OpenSession
  \/ FetchCatalog
  \/ ParseLinks
  \/ WalkFirst
  \/ WalkNext
  \/ WalkReturn
  \/ ExitLoop
  \/ WriteSnapshot
  \/ ProcessData

Spec == Init /\ [][Next]_vars

TypeOK ==
  /\ pc \in {"start", "fetch_catalog", "parse", "loop", "while", "write", "done", "crashed"}
  /\ session \in {"none", "open", "closed"}
  /\ Len(data) <= Len(hotel_urls)

\* ------------------------------------------------- vocabulary of the claims
Catalog == site[CatalogUrl]

\* the fetches made for the hotel at position j of hotel_urls, in order
HotelLog(j) == SelectSeq(log, LAMBDA e : e.hotel = j)

AllOk(L) == \A k \in 1..Len(L) : L[k].ok

RECURSIVE ChainUrls(_, _)
\* the URLs of a hotel's review pages as the site links them, from url on
ChainUrls(url, fuel) ==
  IF fuel = 0 \/ url \notin DOMAIN site THEN <<>>
  ELSE <<url>> \o
       (IF site[url].next.present /\ site[url].next.has_a
        THEN ChainUrls(DomainRoot \o (IF site[url].next.a.has_href
                                      THEN site[url].next.a.href ELSE NoneStr),
                       fuel - 1)
        ELSE <<>>)

HotelChain(j) == ChainUrls(hotel_urls[j], MaxFetches + 1)

\* the chain is page 1 -> ... -> page N -> none, N >= 1
EndsAtNone(c) ==
  /\ Len(c) >= 1
  /\ Len(c) <= MaxFetches
  /\ ~site[c[Len(c)]].next.present

RECURSIVE PagesOpinions(_)
\* the opinions of the pages at urls, page after page
PagesOpinions(urls) ==
  IF Len(urls) = 0 THEN <<>>
  ELSE ExtractOpinions(SoupOf(site[urls[1]])) \o PagesOpinions(Tail(urls))

\* C1: for a hotel whose pages form a chain 1 -> ... -> N -> none and whose
\* fetches all succeeded, the walk returns the pages' opinions concatenated
\* in page order, after exactly N fetches, one per page of the chain.
C1_WalkReturnsChainConcatenation ==
  \A j \in 1..Len(data) :
    (EndsAtNone(HotelChain(j)) /\ AllOk(HotelLog(j))) =>
      /\ data[j].opinions = PagesOpinions(HotelChain(j))
      /\ Len(HotelLog(j)) = Len(HotelChain(j))
      /\ \A k \in 1..Len(HotelLog(j)) : HotelLog(j)[k].url = HotelChain(j)[k]

\* a 3-page hotel was walked to the end without a failed fetch
W1_ThreePageWalkReturned ==
  \E j \in 1..Len(data) :
    /\ EndsAtNone(HotelChain(j)) /\ Len(HotelChain(j)) = 3
    /\ AllOk(HotelLog(j))
    /\ Len(data[j].opinions) = 5

C3_CatalogFailureWritesEmptySnapshot ==
  (Len(log) >= 1 /\ ~log[1].ok) =>
    /\ Len(log) = 1
    /\ data = <<>>
    /\ \/ pc = "write" /\ ENABLED WriteSnapshot
       \/ pc = "done" /\ written.done /\ written.content = <<>>

\* the run ended after a failed catalog fetch
W3_WrittenAfterCatalogFailure ==
  /\ pc = "done"
  /\ Len(log) = 1 /\ ~log[1].ok
  /\ written.done

\* the opinions of the pages a walk fetched successfully, in fetch order
OkUrls(L) ==
  LET ok == SelectSeq(L, LAMBDA e : e.ok) IN [k \in 1..Len(ok) |-> ok[k].url]

HasFailed(j) == \E k \in 1..Len(HotelLog(j)) : ~HotelLog(j)[k].ok

\* C4: a fetch error in one hotel's walk (first or later page) does not stop
\* the crawl: that hotel gets its result and main moves on, the next link is
\* walked, every link has its result when the loop ends, and each later
\* result is exactly what that hotel's own fetched pages hold.
C4_FetchErrorDoesNotStopCrawl ==
  \A j \in 1..Len(hotel_urls) :
    HasFailed(j) =>
      /\ Len(data) >= j
      /\ i > j
      /\ (pc = "loop" /\ i <= Len(hotel_urls) => ENABLED WalkFirst)
      /\ (pc \in {"write", "done"} => Len(data) = Len(hotel_urls))
      /\ \A k \in (j + 1)..Len(data) :
           /\ data[k].hotel_url = hotel_urls[k]
           /\ data[k].opinions = PagesOpinions(OkUrls(HotelLog(k)))

\* the first hotel's walk failed and the second hotel was still walked fully
W4_SecondHotelWalkedAfterFailure ==
  /\ pc = "done"
  /\ Len(data) >= 2
  /\ HasFailed(1)
  /\ AllOk(HotelLog(2))
  /\ Len(data[2].opinions) >= 2

\* C5: whatever the site returns, main never ends by an uncaught error
\* before the snapshot is written.
C5_RunNeverEndsByUncaughtError == pc # "crashed"

\* C6: one session per run; every fetch happens while it is open; it is
\* open throughout the with block and closed on every way out of it
\* (loop exhausted, catalog fetch failed, exception raised).
C6_SessionScopedToRun ==
  /\ opened <= 1
  /\ (pc # "start" => opened = 1)
  /\ \A k \in 1..Len(log) : log[k].open
  /\ (pc \in {"fetch_catalog", "parse", "loop", "while"} => session = "open")
  /\ (pc \in {"write", "done", "crashed"} => session = "closed")

\* an exception raised in a hotel's walk left the with block
W6_SessionClosedAfterError ==
  /\ pc = "crashed"
  /\ Len(log) >= 2
  /\ session = "closed"
  /\ opened = 1

SlashCount(h) == Cardinality({k \in 1..Len(h) : h[k] = "/"})
DashCount(h) == Cardinality({k \in 1..Len(h) : h[k] = "-"})

\* the href's segments from the 4th on, joined by "/": what follows its
\* third "/"
Remainder(h) ==
  LET p == CHOOSE q \in 1..Len(h) :
             h[q] = "/" /\ Cardinality({k \in 1..(q - 1) : h[k] = "/"}) = 2
  IN SubSeq(h, p + 1, Len(h))

\* url is the prefix, then rem with one "h" right after rem's last "-"
HAfterLastDash(url, rem) ==
  \E d \in 1..Len(rem) :
    /\ rem[d] = "-"
    /\ \A e \in (d + 1)..Len(rem) : rem[e] # "-"
    /\ url = OpinionsPrefix \o SubSeq(rem, 1, d) \o <<"h">> \o SubSeq(rem, d + 1, Len(rem))

\* C7 as stated: every href with at least 4 segments and at least one "-"
\* anywhere is rewritten to prefix + remainder with "h" after the
\* remainder's last "-".
C7_AnyDashRewritten ==
  \A k \in 1..Len(hotel_urls) :
    (SlashCount(Catalog.anchors[k].href) >= 3 /\ DashCount(Catalog.anchors[k].href) >= 1) =>
      HAfterLastDash(hotel_urls[k], Remainder(Catalog.anchors[k].href))

\* C7 amended: every href with at least 4 segments and at least one "-" in
\* its segments from the 4th on is rewritten to prefix + remainder with
\* exactly one "h" inserted right after the remainder's last "-".
C7_DashInRemainderRewritten ==
  \A k \in 1..Len(hotel_urls) :
    (/\ SlashCount(Catalog.anchors[k].href) >= 3
     /\ DashCount(Remainder(Catalog.anchors[k].href)) >= 1) =>
      HAfterLastDash(hotel_urls[k], Remainder(Catalog.anchors[k].href))

\* a href of 5 segments with two "-" in its remainder was rewritten
W7_TwoDashHrefRewritten ==
  \E k \in 1..Len(hotel_urls) :
    /\ SlashCount(Catalog.anchors[k].href) >= 4
    /\ DashCount(Remainder(Catalog.anchors[k].href)) >= 2

\* the catalog of the end-to-end scenario: one link /pl/offer/123-grand-hotel
GrandScenario ==
  /\ Catalog.carousel
  /\ Catalog.anchors = <<Anchor(HrefGrand)>>

\* "https://www.wakacje.pl/opinie/hotele/offer/123-hgrand-hotel"
ClaimedUrlGrand ==
  OpinionsPrefix \o <<"o","f","f","e","r","/","1","2","3","-","h","g","r","a","n","d","-","h","o","t","e","l">>

\* C8 as stated: the scenario's snapshot is one result with hotel_url
\* .../opinie/hotele/offer/123-hgrand-hotel and the two opinions.
C8_SnapshotHasClaimedUrl ==
  (GrandScenario /\ pc = "done" /\ AllOk(log)) =>
    written.content =
      <<[hotel_url |-> ClaimedUrlGrand, opinions |-> <<GreatStay, WouldReturn>>]>>

\* C8 amended: the scenario's snapshot is one result whose hotel_url is
\* .../opinie/hotele/123-grand-hhotel (three segments dropped, "h" after the
\* last "-"); its opinions are the two texts when the review page at that
\* URL was fetched, and empty when that fetch failed.
C8_SnapshotHasRewrittenUrl ==
  (GrandScenario /\ pc = "done" /\ log[1].ok) =>
    /\ written.done
    /\ Len(written.content) = 1
    /\ written.content[1].hotel_url = UrlGrand
    /\ written.content[1].opinions =
         (IF AllOk(log) THEN <<GreatStay, WouldReturn>> ELSE <<>>)

\* the scenario ran to the end with both fetches successful
W8_ScenarioWritten ==
  /\ GrandScenario
  /\ pc = "done"
  /\ Len(log) = 2
  /\ AllOk(log)
  /\ Len(written.content[1].opinions) = 2

\* fewer than 3 segments, or no "-"
Malformed(h) == SlashCount(h) + 1 < 3 \/ DashCount(h) = 0

\* C9: hrefs that do not fit the rewriting shape are skipped: after
\* parse_hotel_links there is one HotelLink per well-shaped href only.
C9_MalformedHrefSkipped ==
  (pc \in {"loop", "while", "write", "done"} /\ Len(log) >= 1 /\ log[1].ok) =>
    Len(hotel_urls) =
      Cardinality({k \in 1..Len(Catalog.anchors) : ~Malformed(Catalog.anchors[k].href)})

\* C10: data holds one result per HotelLink walked so far, in carousel
\* order, with the link unchanged as hotel_url and no opinions when the
\* first page failed; when the loop has ended after a successful catalog
\* fetch there is one result for every link parse_hotel_links returned, and
\* the snapshot written is exactly data.
C10_OneResultPerLinkInOrder ==
  /\ Len(data) <= Len(hotel_urls)
  /\ \A k \in 1..Len(data) :
       /\ data[k].hotel_url = hotel_urls[k]
       /\ (~HotelLog(k)[1].ok => data[k].opinions = <<>>)
  /\ (pc \in {"write", "done"} /\ Len(log) >= 1 /\ log[1].ok) =>
       /\ Len(data) = Len(hotel_urls)
       /\ hotel_urls = ParseHotelLinks(SoupOf(Catalog))
  /\ (pc = "done" => written.done /\ written.content = data)

\* a link occurring twice: its first walk failed on page 1, its second did not
W10_DuplicateLinkBothInSnapshot ==
  /\ pc = "done"
  /\ Len(written.content) = 2
  /\ written.content[1].hotel_url = written.content[2].hotel_url
  /\ ~HotelLog(1)[1].ok
  /\ written.content[1].opinions = <<>>
  /\ Len(written.content[2].opinions) > 0

\* C11: when the fetched catalog document has no carousel container,
\* parse_hotel_links returns the empty sequence without raising, the run
\* makes no fetch beyond the catalog, and the snapshot written is empty.
C11_NoCarouselGivesEmptySnapshot ==
  (Len(log) >= 1 /\ log[1].ok /\ ~Catalog.carousel /\ pc # "parse") =>
    /\ pc \in {"loop", "write", "done"}
    /\ hotel_urls = <<>>
    /\ Len(log) = 1
    /\ data = <<>>
    /\ (pc = "loop" => ENABLED ExitLoop)
    /\ (pc = "write" => ENABLED WriteSnapshot)
    /\ (pc = "done" => written.done /\ written.content = <<>>)

\* a run over a catalog without carousel wrote its snapshot
W11_WrittenWithoutCarousel ==
  /\ pc = "done"
  /\ Len(log) = 1 /\ log[1].ok
  /\ ~Catalog.carousel
  /\ written.done

\* C12: when a fetch of a hotel's walk fails, on its first page or on a
\* later one, scrape_hotel_opinions returns an empty list.
C12_AnyFetchErrorReturnsEmpty ==
  \A j \in 1..Len(data) : HasFailed(j) => data[j].opinions = <<>>

\* the next-page links from the hotel's start URL form a finite chain: no
\* URL comes twice and the chain ends within the pages a walk may fetch
Acyclic(j) ==
  /\ Len(HotelChain(j)) <= MaxFetches
  /\ \A a, b \in 1..Len(HotelChain(j)) : HotelChain(j)[a] = HotelChain(j)[b] => a = b

\* C13: for a hotel whose next-page links are acyclic, every walk returns,
\* whatever fetches succeed or fail: a walk that has not returned is never
\* ended by an error and always has its next step to take.
C13_AcyclicWalkReturns ==
  \A j \in 1..Len(hotel_urls) :
    (Acyclic(j) /\ i = j) =>
      \/ pc = "loop" /\ ENABLED WalkFirst
      \/ pc = "while" /\ (ENABLED WalkNext \/ ENABLED WalkReturn)

\* the URLs fetched so far in the walk of the hotel at position j
WalkUrls(j) == [k \in 1..Len(HotelLog(j)) |-> HotelLog(j)[k].url]

NoRepeat(q) == \A a, b \in 1..Len(q) : q[a] = q[b] => a = b

\* each fetch after the first goes to the next link of the page fetched
\* just before it
FollowsNextLinks(j) ==
  \A k \in 2..Len(HotelLog(j)) :
    /\ HotelLog(j)[k - 1].ok
    /\ site[HotelLog(j)[k - 1].url].next.present
    /\ site[HotelLog(j)[k - 1].url].next.has_a
    /\ HotelLog(j)[k].url =
         DomainRoot \o (IF site[HotelLog(j)[k - 1].url].next.a.has_href
                        THEN site[HotelLog(j)[k - 1].url].next.a.href
                        ELSE NoneStr)

\* C14 as stated: in every reachable state no walk has fetched a URL twice,
\* and each fetch after the first follows the preceding page's next link.
C14_NoPageFetchedTwice ==
  \A j \in 1..Len(hotel_urls) : NoRepeat(WalkUrls(j)) /\ FollowsNextLinks(j)

\* C14 amended: each fetch after the first follows the preceding page's
\* next link, and when the hotel's next-page links are acyclic no walk of it
\* has fetched a URL twice.
C14_NoPageFetchedTwiceIfAcyclic ==
  \A j \in 1..Len(hotel_urls) :
    /\ FollowsNextLinks(j)
    /\ (Acyclic(j) => NoRepeat(WalkUrls(j)))

\* a walk fetched the three pages of an acyclic hotel
W14_ThreeDistinctPagesFetched ==
  \E j \in 1..Len(hotel_urls) :
    /\ Acyclic(j)
    /\ Len(HotelLog(j)) = 3
    /\ AllOk(HotelLog(j))

\* C15: each fetch after the first goes to root + href of the next-page
\* control of the page fetched before it; a walk that returned after a
\* successful fetch did so on a page without next-page control; a walk never
\* stops while the page it last fetched has a next-page control to follow.
C15_WalkFollowsControlOrIsDone ==
  \A j \in 1..Len(hotel_urls) :
    (j <= i /\ Len(HotelLog(j)) >= 1) =>
      /\ \A k \in 2..Len(HotelLog(j)) :
           /\ HotelLog(j)[k - 1].ok
           /\ site[HotelLog(j)[k - 1].url].next.present
           /\ site[HotelLog(j)[k - 1].url].next.has_a
           /\ site[HotelLog(j)[k - 1].url].next.a.has_href
           /\ HotelLog(j)[k].url =
                DomainRoot \o site[HotelLog(j)[k - 1].url].next.a.href
      /\ (HotelLog(j)[Len(HotelLog(j))].ok =>
            IF site[HotelLog(j)[Len(HotelLog(j))].url].next.present
            THEN i = j /\ pc = "while"
            ELSE pc # "crashed" \/ i > j)

RECURSIVE ListedOpinions(_)
\* the stripped texts of the pages at urls, page after page, where a page
\* without opinions-list container gives none
ListedOpinions(urls) ==
  IF Len(urls) = 0 THEN <<>>
  ELSE (IF site[urls[1]].has_list
        THEN [k \in 1..Len(site[urls[1]].blocks) |-> GetTextStrip(site[urls[1]].blocks[k])]
        ELSE <<>>)
       \o ListedOpinions(Tail(urls))

\* C16: a fetched page without opinions-list container adds no opinion and
\* is not an error: its next-page control is still looked up and followed,
\* and the walk's result holds the opinions of the pages after it.
C16_PageWithoutListIsSkippedNotFailed ==
  \A j \in 1..Len(hotel_urls) :
    j <= i =>
      /\ \A k \in 1..Len(HotelLog(j)) :
           (/\ HotelLog(j)[k].ok
            /\ ~site[HotelLog(j)[k].url].has_list
            /\ site[HotelLog(j)[k].url].next.present
            /\ site[HotelLog(j)[k].url].next.has_a) =>
             IF k < Len(HotelLog(j))
             THEN HotelLog(j)[k + 1].url = NextPageUrl(site[HotelLog(j)[k].url].next)
             ELSE i = j /\ pc = "while" /\ next_page = site[HotelLog(j)[k].url].next
      /\ (j <= Len(data) => data[j].opinions = ListedOpinions(OkUrls(HotelLog(j))))

\* a walk went through a second page without container and collected the
\* third page's opinions
W16_OpinionsCollectedPastEmptyPage ==
  \E j \in 1..Len(data) :
    /\ Len(HotelLog(j)) = 3
    /\ AllOk(HotelLog(j))
    /\ ~site[HotelLog(j)[2].url].has_list
    /\ Len(data[j].opinions) = 4

IsPrefix(a, b) == Len(a) <= Len(b) /\ SubSeq(b, 1, Len(a)) = a

\* C17: while a hotel's walk goes on, each step leaves the earlier opinions
\* as a prefix of the new ones; the result appended when the walk ends
\* (by a missing next control or by a fetch error) is the accumulator as it
\* was; and no step changes or removes a result already in data.
C17_AccumulatorAppendOnly ==
  [][ /\ (pc = "while" /\ pc' = "while" => i' = i /\ IsPrefix(opinions, opinions'))
      /\ (pc = "while" /\ Len(data') > Len(data) =>
            /\ Len(data') = Len(data) + 1
            /\ data'[Len(data')].opinions = opinions)
      /\ IsPrefix(data, data') ]_vars

\* the second hotel's walk is past its second page while the first hotel's
\* result, with opinions, is in data
W17_SecondWalkGrowsWithFirstResultKept ==
  /\ pc = "while"
  /\ i = 2
  /\ Len(data) = 1 /\ Len(data[1].opinions) >= 2
  /\ Len(HotelLog(2)) >= 2
  /\ Len(opinions) >= 3

RECURSIVE OpinionsBefore(_, _)
\* how many opinions the first n results of d hold together
OpinionsBefore(d, n) ==
  IF n = 0 THEN 0 ELSE OpinionsBefore(d, n - 1) + Len(d[n].opinions)

\* C18: the corpus has one entry per opinion of every hotel of the snapshot:
\* its length is the sum of the lengths of the opinions lists, and the k-th
\* opinion of the j-th hotel stands, cleaned, right after all opinions of the
\* hotels before it; a hotel without opinions adds nothing.
C18_CorpusFlattensSnapshot ==
  corpus.made =>
    /\ Len(corpus.lines) = OpinionsBefore(written.content, Len(written.content))
    /\ \A j \in 1..Len(written.content) :
         \A k \in 1..Len(written.content[j].opinions) :
           /\ OpinionsBefore(written.content, j - 1) + k <= Len(corpus.lines)
           /\ corpus.lines[OpinionsBefore(written.content, j - 1) + k] =
                LowercaseOpinion(written.content[j].opinions[k])

\* a snapshot of a hotel without opinions followed by a hotel with five, one
\* of them the empty string, was made into a corpus of five entries
W18_CorpusOfTwoHotels ==
  /\ corpus.made
  /\ Len(written.content) = 2
  /\ written.content[1].opinions = <<>>
  /\ Len(written.content[2].opinions) = 5
  /\ Len(corpus.lines) = 5
  /\ corpus.lines[4] = <<"d">>
  /\ corpus.lines[5] = <<>>
====
